---- MODULE Spec2Model ----
(***************************************************************************)
(* A model of the FaceSwap training and inference programs:                *)
(*   - Utils/Trainer.py          Trainer.train (epoch loop, validation)    *)
(*   - Models/CPGGAN/CPGGAN.py   CPGGAN.train (batch loop), anonymize      *)
(*   - Configuration/config_model.py   Config, GAN_CONFIG, PGGAN_CONFIG    *)
(*   - Models/ModelUtils/ModelUtils.py CombinedModel.save_model/load_model *)
(*   - Utils/Anonymizer.py       Anonymizer.__call__                       *)
(* Python indices are kept 0-based through Idx.  A tensor is abstracted to *)
(* the identity of the sample it holds and its number of rows.  The real   *)
(* number cur_level is kept exactly, as whole + num/den (+ 1e-10).         *)
(***************************************************************************)
EXTENDS Integers, Sequences, FiniteSets, TLC

\* ---------------------------------------------------------------- bounds
\* epochs_stab and epochs_fade range over 1..MaxPhaseEpochs (and the shipped 4)
MaxPhaseEpochs == 2
\* the training set holds up to MaxDatasetBatches * 64 (+ a remainder) images
MaxDatasetBatches == 1
\* distinct samples the noise generator can draw
NoiseSamples == 2
\* distinct feature batches a data loader can deliver
FeatureSamples == 2
\* distinct faces handed to CPGGAN.anonymize
MaxFaces == 2
\* explicit level_out arguments range over 0..MaxLevelOut
MaxLevelOut == 1
\* distinct images handed to the Anonymizer
MaxImages == 1
\* extracted faces are 64 * (1..MaxFaceSize) pixels wide
MaxFaceSize == 2
\* optimizer steps between saves and loads
MaxVersion == 2

\* ------------------------------------------------------ python helpers
\* seq[i] of a python list
Idx(seq, i) == seq[i + 1]

InRange(seq, i) == i >= 0 /\ i < Len(seq)

Min(a, b) == IF a <= b THEN a ELSE b

\* python's None (a record, as are the values it stands in for)
None == [none |-> TRUE]

\* an int argument that is not None
Some(n) == [value |-> n]

\* int(np.log2(n)) for n a power of two
RECURSIVE Log2(_)
Log2(n) == IF n <= 1 THEN 0 ELSE 1 + Log2(n \div 2)

\* a Config whose run is longer than its last validation period
Config_LongRun ==
    [name |-> "Config", batch_size |-> 64, max_epochs |-> 103,
     validate_index |-> 0,
     validation_frequencies |-> <<2, 5, 20>>,
     validation_periods |-> <<0, 10, 20, 101 + 1>>]

\* ------------------------------------------------------- configuration
\* class Config
Config ==
    [name |-> "Config", batch_size |-> 64, max_epochs |-> 101,
     validate_index |-> 0,
     validation_frequencies |-> <<2, 5, 20>>,
     validation_periods |-> <<0, 10, 20, 101 + 1>>]

\* class GAN_CONFIG(Config): overrides validation_frequencies
GAN_CONFIG ==
    [Config EXCEPT !.name = "GAN_CONFIG", !.validation_frequencies = <<1, 1, 1>>]

\* PGGAN_CONFIG.max_level
MaxLevel(target_resolution) == Log2(target_resolution) - 1

\* a budget without the additional stabilization phase at the end
PGGANMaxEpochs_NoExtra(target_resolution, epochs_stab, epochs_fade) ==
    MaxLevel(target_resolution) * epochs_stab
        + (MaxLevel(target_resolution) - 1) * epochs_fade

\* PGGAN_CONFIG.max_epochs
PGGANMaxEpochs(target_resolution, epochs_stab, epochs_fade) ==
    (MaxLevel(target_resolution) + 1) * epochs_stab
        + (MaxLevel(target_resolution) - 1) * epochs_fade

\* PGGAN_CONFIG.model_params['batch_size_schedule']
batch_size_schedule ==
    (1 :> 64) @@ (2 :> 64) @@ (3 :> 64) @@ (4 :> 32) @@ (5 :> 16) @@ (6 :> 16)

\* class PGGAN_CONFIG(GAN_CONFIG) / CPGGAN_CONFIG(PGGAN_CONFIG)
PGGAN_CONFIG(p) ==
    [GAN_CONFIG EXCEPT
        !.name = "PGGAN_CONFIG",
        !.max_epochs = PGGANMaxEpochs(p.target_resolution, p.epochs_stab, p.epochs_fade),
        !.batch_size = batch_size_schedule[1]]

\* the model parameters shipped in PGGAN_CONFIG / CPGGAN_CONFIG
ShippedParams == [target_resolution |-> 128, epochs_stab |-> 4, epochs_fade |-> 4]

\* model parameters explored: a small family and the shipped ones
ModelParams ==
    [target_resolution : {4, 8, 16},
     epochs_stab : 1..MaxPhaseEpochs,
     epochs_fade : 1..MaxPhaseEpochs] \cup {ShippedParams}

\* number of images of the training split
TrainImageCounts == {64 * k + r : k \in 1..MaxDatasetBatches, r \in {0, 24}}

\* --------------------------------------------------------------- state
VARIABLES
    \* Trainer
    config,              \* self.config (validate_index is config.validate_index)
    current_epoch,
    tpc,                 \* position in Trainer.train / model.train
    passes,              \* passes of model.train run so far in the current epoch
    last_epoch,          \* [epoch, passes] of the epoch completed last
    \* model construction parameters and data set
    params,
    train_images,
    \* PGGAN / CPGGAN fields
    resolution_level,
    stabilization_phase,
    images_faded_in,
    images_per_fading_phase,
    batch_size,
    epochs_in_phase,
    static_noise,
    static_landmarks,
    static_lowres,
    train_mode,          \* mode of the models and torch.set_grad_enabled
    D,                   \* self.D: [training, grad], grad counts the losses
    G,                   \* self.G: back-propagated since the last zero_grad
    schedule_calls,      \* calls of schedule_resolution made so far
    train_data_loader,   \* the loader the running call of train iterates
    \* CPGGAN.train locals
    validate,
    batches_left,
    iterations,
    faded_at_call,       \* images_faded_in when the running call of train began
    batch,               \* what the batch processed last ran with
    val_inputs,          \* generator inputs of the validation passes, by batch_size
    anonymization_noise,
    \* CPGGAN.anonymize: the call made last and the one before it
    anon_last,
    anon_prev,
    \* Anonymizer.__call__
    apc,                 \* position in __call__
    image,
    extracted_face,
    latent_information,
    face_out,
    constructed_image,
    calls,               \* collaborators invoked by the running call, in order
    returned,            \* what the call completed last returned
    \* CombinedModel.save_model / load_model
    weights,             \* version of the parameters of each model
    files,               \* the file system: a set of [file, content]
    last_save,
    last_load

trainVars ==
    <<config, current_epoch, tpc, passes, last_epoch, params, train_images,
      resolution_level, stabilization_phase, images_faded_in,
      images_per_fading_phase, batch_size, epochs_in_phase, static_noise,
      static_landmarks, static_lowres, train_mode, validate, batches_left,
      iterations, faded_at_call, batch, val_inputs, D, G, schedule_calls,
      train_data_loader>>

anonVars ==
    <<anonymization_noise, anon_last, anon_prev, apc, image, extracted_face,
      latent_information, face_out, constructed_image, calls, returned>>

saveVars == <<weights, files, last_save, last_load>>

vars == <<trainVars, anonVars, saveVars>>

trainerVars == <<config, current_epoch, passes, last_epoch>>

setupVars == <<params, train_images, static_noise, static_landmarks, static_lowres>>

scheduleVars ==
    <<resolution_level, stabilization_phase, images_per_fading_phase,
      batch_size, epochs_in_phase>>

moduleVars == <<D, G>>

callVars == <<schedule_calls, train_data_loader>>

\* ------------------------------------------------------------- tensors
Tensor(id, rows) == [id |-> id, rows |-> rows]

\* t[:n]
Slice(t, n) == [t EXCEPT !.rows = Min(t.rows, n)]

\* torch.cat([a, b], 1)
Cat(a, b) == <<a, b>>

NoBatch ==
    [n |-> 0, validate |-> FALSE, stab |-> TRUE, level |-> 0, faded |-> 0,
     per_phase |-> 1, size |-> 0,
     fade_in_factor |-> [num |-> 0, den |-> 1],
     cur_level |-> [whole |-> 0, num |-> 0, den |-> 1, eps |-> FALSE],
     d_levels |-> {}, g_levels |-> {}, input_vec |-> <<>>,
     started |-> [D |-> TRUE, G |-> TRUE, grad_enabled |-> TRUE],
     log |-> <<>>, schedule_calls |-> 0, loader |-> None]

\* ------------------------------------------------ PGGAN (base class)
\* DataSplitter: the training loader delivers full batches only
NumBatches(images, bs) == images \div bs

\* the validation loader delivers at least one batch
NumValidationBatches == 1

\* PGGAN.__init__: the schedule starts stabilizing the first level
PGGANInit(p, images, initial_batch_size) ==
    [resolution_level |-> 1,
     stabilization_phase |-> TRUE,
     images_faded_in |-> 0,
     images_per_fading_phase |-> p.epochs_fade * images,
     batch_size |-> initial_batch_size,
     epochs_in_phase |-> 0]

\* PGGAN.schedule_resolution, called once per training epoch: epochs_stab
\* epochs of stabilization per level, epochs_fade epochs of fade-in into each
\* level after the first; the last level keeps stabilizing
ScheduleResolution(s, p, images) ==
    LET n == s.epochs_in_phase + 1
        max_level == MaxLevel(p.target_resolution)
    IN  IF s.stabilization_phase /\ n > p.epochs_stab
               /\ s.resolution_level < max_level
        THEN [s EXCEPT
                !.stabilization_phase = FALSE,
                !.resolution_level = s.resolution_level + 1,
                !.images_faded_in = 0,
                !.batch_size = batch_size_schedule[s.resolution_level + 1],
                !.images_per_fading_phase = p.epochs_fade * images,
                !.epochs_in_phase = 1]
        ELSE IF ~s.stabilization_phase /\ n > p.epochs_fade
        THEN [s EXCEPT !.stabilization_phase = TRUE, !.epochs_in_phase = 1]
        ELSE [s EXCEPT !.epochs_in_phase = n]

\* RandomNoiseGenerator.__call__(batch_size): a fresh sample
Noise(z, rows) == Tensor(<<"noise", z>>, rows)

\* a set_train_mode that always switches to training
SetTrainMode_On(mode) == TRUE

\* CombinedModel.set_train_mode
SetTrainMode(mode) == mode

\* ------------------------------------------- modules and optimizers
\* the losses back-propagated in a training batch
Losses == {"real", "fake", "gp", "generator"}

\* the gradients after zero_grad
NoGrad == [l \in Losses |-> 0]

\* a module after construction
NewModule == [training |-> TRUE, grad |-> NoGrad]

\* model.train(mode)
ModuleTrain(m, mode) == [m EXCEPT !.training = mode]

\* a zero_grad that leaves the gradients in place
ZeroGrad_Keep(m) == m

\* optimizer.zero_grad()
ZeroGrad(m) == [m EXCEPT !.grad = NoGrad]

\* loss.backward(): the gradient is added to what the module holds
Backward(m, loss) == [m EXCEPT !.grad[loss] = @ + 1]

\* --------------------------------------------------------- CPGGAN.train
\* lines 71-75: fade_in_factor
FadeInFactor(stab, faded, per_phase) ==
    IF stab THEN [num |-> 0, den |-> 1] ELSE [num |-> faded, den |-> per_phase]

\* a fade-in that does not start below the new level
CurLevel_NoStepBack(stab, level, faded, per_phase) ==
    IF stab
    THEN [whole |-> level, num |-> 0, den |-> 1, eps |-> FALSE]
    ELSE [whole |-> level, num |-> faded, den |-> per_phase, eps |-> (faded = 0)]

\* lines 71-77: cur_level = whole + num/den, plus 1e-10 when eps
CurLevel(stab, level, faded, per_phase) ==
    IF stab
    THEN [whole |-> level, num |-> 0, den |-> 1, eps |-> FALSE]
    ELSE [whole |-> level - 1, num |-> faded, den |-> per_phase,
          eps |-> (faded = 0)]

\* lines 62-66: the landmarks and low-resolution images of a loader batch
LoadedFeatures(f, bs) ==
    Cat(Tensor(<<"landmarks", f>>, bs), Tensor(<<"lowres", f>>, bs))

\* lines 80-84: the noise of a batch
BatchNoise(is_validation, fresh, bs) ==
    IF is_validation THEN Slice(static_noise, bs) ELSE fresh

\* a validation pass that keeps the features of the loader
BatchFeatures_Loaded(is_validation, loaded, bs) == loaded

\* lines 80-82: the features of a batch
BatchFeatures(is_validation, loaded, bs) ==
    IF is_validation
    THEN Cat(Slice(static_landmarks, bs), Slice(static_lowres, bs))
    ELSE loaded

\* lines 107, 126, 135, 154: the cur_level of every discriminator call
DiscriminatorLevels(is_validation, cur_level) == {cur_level}

\* line 119: the cur_level of the generator call
GeneratorLevels(is_validation, cur_level) == {cur_level}

\* a counter that counts every image twice
FadedInAfterBatch_Twice(stab, is_validation, faded, bs) ==
    IF ~stab /\ ~is_validation THEN faded + 2 * bs ELSE faded

\* a counter that also counts the images of a stabilization phase
FadedInAfterBatch_Always(stab, is_validation, faded, bs) ==
    IF ~is_validation THEN faded + bs ELSE faded

\* lines 170-172: images_faded_in after a fully processed batch
FadedInAfterBatch(stab, is_validation, faded, bs) ==
    IF ~stab /\ ~is_validation THEN faded + bs ELSE faded

\* line 60: the loader the call iterates; with validate=False lines 52-54
\* replace the one passed in by a loader fetched after schedule_resolution
IteratedLoader_Passed(is_validation, passed, refetched) == passed

IteratedLoader(is_validation, passed, refetched) ==
    IF is_validation THEN passed ELSE refetched

\* DataSplitter.get_train_data_loader / get_validation_data_loader: a loader,
\* named by who fetched it and how many schedule_resolution calls preceded it
Loader(kind, fetched_by, scheduled) ==
    [kind |-> kind, fetched_by |-> fetched_by, scheduled |-> scheduled]

\* lines 98-161: the module and optimizer operations of one batch, in order
BatchOps(is_validation) ==
    IF is_validation
    THEN <<"D(real)", "G(input_vec)">>
    ELSE <<"D.train(True)", "D_optimizer.zero_grad", "D(real)",
           "D_real.backward", "G(input_vec)", "D(fake.detach)",
           "D_fake.backward", "calculate_gradient_penalty", "gp.backward",
           "D_optimizer.step",
           "D.train(False)", "G_optimizer.zero_grad", "D(fake)",
           "G_loss.backward", "G_optimizer.step">>

\* the effect of one operation on the modules m = [D, G, log]; the inputs of
\* the discriminator losses are detached from the generator (lines 126, 135),
\* the generator loss flows through the discriminator into the generator
ApplyOp(m, op) ==
    LET n == CASE op = "D.train(True)" -> [m EXCEPT !.D = ModuleTrain(m.D, TRUE)]
               [] op = "D.train(False)" -> [m EXCEPT !.D = ModuleTrain(m.D, FALSE)]
               [] op = "D_optimizer.zero_grad" -> [m EXCEPT !.D = ZeroGrad(m.D)]
               [] op = "G_optimizer.zero_grad" -> [m EXCEPT !.G = ZeroGrad(m.G)]
               [] op = "D_real.backward" -> [m EXCEPT !.D = Backward(m.D, "real")]
               [] op = "D_fake.backward" -> [m EXCEPT !.D = Backward(m.D, "fake")]
               [] op = "gp.backward" -> [m EXCEPT !.D = Backward(m.D, "gp")]
               [] op = "G_loss.backward" ->
                     [m EXCEPT !.D = Backward(m.D, "generator"),
                               !.G = Backward(m.G, "generator")]
               [] OTHER -> m
        applied == CASE op = "D_optimizer.step" -> n.D.grad
                     [] op = "G_optimizer.step" -> n.G.grad
                     [] OTHER -> NoGrad
    IN  [n EXCEPT !.log = Append(m.log, [op |-> op,
                                         D_training |-> n.D.training,
                                         G_training |-> n.G.training,
                                         applied |-> applied])]

RECURSIVE RunOps(_, _)
RunOps(m, ops) ==
    IF ops = <<>> THEN m ELSE RunOps(ApplyOp(m, Head(ops)), Tail(ops))

\* lines 98-161: the modules after one batch, and the log of its operations
RunUpdates(is_validation) ==
    RunOps([D |-> D, G |-> G, log |-> <<>>], BatchOps(is_validation))

\* lines 60-122: what one batch runs with
RunBatch(is_validation, loaded, fresh) ==
    LET cl == CurLevel(stabilization_phase, resolution_level, images_faded_in,
                       images_per_fading_phase)
    IN  [n |-> iterations + 1,
         validate |-> is_validation,
         stab |-> stabilization_phase,
         level |-> resolution_level,
         faded |-> images_faded_in,
         per_phase |-> images_per_fading_phase,
         size |-> batch_size,
         fade_in_factor |-> FadeInFactor(stabilization_phase, images_faded_in,
                                         images_per_fading_phase),
         cur_level |-> cl,
         d_levels |-> DiscriminatorLevels(is_validation, cl),
         g_levels |-> GeneratorLevels(is_validation, cl),
         input_vec |-> Cat(BatchNoise(is_validation, fresh, batch_size),
                           BatchFeatures(is_validation, loaded, batch_size)),
         started |-> [D |-> D.training, G |-> G.training,
                      grad_enabled |-> train_mode],
         log |-> RunUpdates(is_validation).log,
         schedule_calls |-> schedule_calls,
         loader |-> train_data_loader]

\* ------------------------------------------------------------- Trainer
\* an update that never advances validate_index
AdvanceIndex_Never(cfg, epoch) == cfg.validate_index

\* lines 32-33: validate_index after the update of an epoch
AdvanceIndex(cfg, epoch) ==
    IF epoch >= Idx(cfg.validation_periods, cfg.validate_index + 1)
    THEN cfg.validate_index + 1
    ELSE cfg.validate_index

\* line 35: whether the epoch validates
ValidatesNow(cfg, epoch, index) ==
    epoch % Idx(cfg.validation_frequencies, index) = 0

\* the configurations a run is started with: PGGAN_CONFIG with each of the
\* model parameters, Config and GAN_CONFIG with the shipped ones
Configs(p) ==
    {PGGAN_CONFIG(p)} \cup (IF p = ShippedParams THEN {Config, GAN_CONFIG} ELSE {})

\* Trainer.__init__ and CPGGAN.__init__: the state after construction.  Samples
\* are interchangeable: the static samples drawn first are named 1, and every
\* later draw ranges over all samples, those drawn before included
Construct(image_counts) ==
    /\ params \in ModelParams
    /\ train_images \in image_counts
    /\ config \in Configs(params)
    /\ current_epoch = 0
    /\ tpc = "epoch"
    /\ passes = <<>>
    /\ last_epoch = [epoch |-> -1, passes |-> <<>>]
    /\ LET s == PGGANInit(params, train_images, config.batch_size)
       IN  /\ resolution_level = s.resolution_level
           /\ stabilization_phase = s.stabilization_phase
           /\ images_faded_in = s.images_faded_in
           /\ images_per_fading_phase = s.images_per_fading_phase
           /\ batch_size = s.batch_size
           /\ epochs_in_phase = s.epochs_in_phase
    /\ static_noise = Noise(1, config.batch_size)
    /\ static_landmarks = Tensor(<<"landmarks", 1>>, config.batch_size)
    /\ static_lowres = Tensor(<<"lowres", 1>>, config.batch_size)
    /\ train_mode = FALSE
    /\ validate = FALSE
    /\ batches_left = 0
    /\ iterations = 0
    /\ faded_at_call = 0
    /\ batch = NoBatch
    /\ val_inputs = {}
    /\ D = NewModule
    /\ G = NewModule
    /\ schedule_calls = 0
    /\ train_data_loader = None
    /\ \E z \in 1..NoiseSamples : anonymization_noise = Noise(z, 1)

\* no call of the anonymizer or of anonymize has been made
AnonIdle ==
    /\ anon_last = None
    /\ anon_prev = None
    /\ apc = "idle"
    /\ image = None
    /\ extracted_face = None
    /\ latent_information = None
    /\ face_out = None
    /\ constructed_image = None
    /\ calls = <<>>
    /\ returned = None

\* freshly initialised models, nothing saved or loaded yet
SaveIdle ==
    /\ weights = [m \in {"encoder", "decoder1", "decoder2"} |-> 0]
    /\ files = {}
    /\ last_save = None
    /\ last_load = None

\* no trainer is constructed
TrainIdle ==
    /\ config = None /\ current_epoch = 0 /\ tpc = "none" /\ passes = <<>>
    /\ last_epoch = None /\ train_images = 0
    /\ resolution_level = None /\ stabilization_phase = None
    /\ images_faded_in = None /\ images_per_fading_phase = None
    /\ batch_size = None /\ epochs_in_phase = None
    /\ static_noise = None /\ static_landmarks = None /\ static_lowres = None
    /\ train_mode = FALSE /\ validate = FALSE /\ batches_left = 0
    /\ iterations = 0 /\ faded_at_call = 0 /\ batch = NoBatch /\ val_inputs = {}
    /\ D = NewModule /\ G = NewModule
    /\ schedule_calls = 0 /\ train_data_loader = None

Init ==
    /\ Construct(TrainImageCounts)
    /\ AnonIdle
    /\ SaveIdle

\* Trainer.train lines 25-29 and CPGGAN.train lines 52-58 (validate=False):
\* the epoch begins, the schedule advances, the training loader is fetched
EpochStart ==
    /\ tpc = "epoch"
    /\ current_epoch < config.max_epochs
    /\ LET s == ScheduleResolution(
                    [resolution_level |-> resolution_level,
                     stabilization_phase |-> stabilization_phase,
                     images_faded_in |-> images_faded_in,
                     images_per_fading_phase |-> images_per_fading_phase,
                     batch_size |-> batch_size,
                     epochs_in_phase |-> epochs_in_phase],
                    params, train_images)
       IN  /\ resolution_level' = s.resolution_level
           /\ stabilization_phase' = s.stabilization_phase
           /\ images_faded_in' = s.images_faded_in
           /\ images_per_fading_phase' = s.images_per_fading_phase
           /\ batch_size' = s.batch_size
           /\ epochs_in_phase' = s.epochs_in_phase
           /\ batches_left' = NumBatches(train_images, s.batch_size)
    /\ train_mode' = SetTrainMode(TRUE)
    /\ D' = ModuleTrain(D, SetTrainMode(TRUE))
    /\ G' = ModuleTrain(G, SetTrainMode(TRUE))
    /\ schedule_calls' = schedule_calls + 1
    /\ train_data_loader' =
          IteratedLoader(FALSE, Loader("train", "Trainer.train", schedule_calls),
                         Loader("train", "CPGGAN.train", schedule_calls + 1))
    /\ validate' = FALSE
    /\ iterations' = 0
    /\ faded_at_call' = images_faded_in
    /\ passes' = Append(passes, "train")
    /\ tpc' = "train_loop"
    /\ UNCHANGED <<config, current_epoch, last_epoch, setupVars, batch, val_inputs>>
    /\ UNCHANGED <<anonVars, saveVars>>

\* CPGGAN.train lines 60-172 (validate=False): one batch of the training loader
TrainBatch ==
    /\ tpc = "train_loop"
    /\ batches_left > 0
    /\ \E f \in 1..FeatureSamples, z \in 1..NoiseSamples :
          batch' = RunBatch(FALSE, LoadedFeatures(f, batch_size),
                            Noise(z, batch_size))
    /\ images_faded_in' =
          FadedInAfterBatch(stabilization_phase, FALSE, images_faded_in, batch_size)
    /\ D' = RunUpdates(FALSE).D
    /\ G' = RunUpdates(FALSE).G
    /\ iterations' = iterations + 1
    /\ batches_left' = batches_left - 1
    /\ UNCHANGED <<trainerVars, tpc, setupVars, scheduleVars, train_mode, validate,
                   faded_at_call, val_inputs, callVars>>
    /\ UNCHANGED <<anonVars, saveVars>>

\* the epoch is over: line 25 moves on to the next one
NextEpoch ==
    /\ last_epoch' = [epoch |-> current_epoch, passes |-> passes]
    /\ passes' = <<>>
    /\ current_epoch' = current_epoch + 1
    /\ tpc' = "epoch"

\* CPGGAN.train lines 174-187 (validate=False) and Trainer.train lines 31-45:
\* the training pass returns, validate_index is updated, and the epoch either
\* starts its validation pass (CPGGAN.train lines 52-58, validate=True) or ends
TrainEnd ==
    /\ tpc = "train_loop"
    /\ batches_left = 0
    /\ IF iterations = 0
       THEN /\ tpc' = "ZeroDivisionError"
            /\ UNCHANGED <<trainerVars, train_mode, validate, batches_left,
                           faded_at_call, moduleVars, train_data_loader>>
       ELSE IF ~InRange(config.validation_periods, config.validate_index + 1)
       THEN /\ tpc' = "IndexError"
            /\ UNCHANGED <<trainerVars, train_mode, validate, batches_left,
                           faded_at_call, moduleVars, train_data_loader>>
       ELSE LET index == AdvanceIndex(config, current_epoch)
            IN  /\ config' = [config EXCEPT !.validate_index = index]
                /\ IF ~InRange(config.validation_frequencies, index)
                   THEN /\ tpc' = "IndexError"
                        /\ UNCHANGED <<current_epoch, passes, last_epoch, train_mode,
                                       validate, batches_left, faded_at_call,
                                       moduleVars, train_data_loader>>
                   ELSE IF ValidatesNow(config, current_epoch, index)
                   THEN /\ train_mode' = SetTrainMode(FALSE)
                        /\ D' = ModuleTrain(D, SetTrainMode(FALSE))
                        /\ G' = ModuleTrain(G, SetTrainMode(FALSE))
                        /\ train_data_loader' =
                              IteratedLoader(TRUE,
                                  Loader("validation", "Trainer.train", schedule_calls),
                                  None)
                        /\ validate' = TRUE
                        /\ batches_left' = NumValidationBatches
                        /\ faded_at_call' = images_faded_in
                        /\ passes' = Append(passes, "validate")
                        /\ tpc' = "val_loop"
                        /\ UNCHANGED <<current_epoch, last_epoch>>
                   ELSE /\ NextEpoch
                        /\ UNCHANGED <<train_mode, validate, batches_left,
                                       faded_at_call, moduleVars, train_data_loader>>
    /\ UNCHANGED <<setupVars, scheduleVars, images_faded_in, iterations, batch,
                   val_inputs, schedule_calls>>
    /\ UNCHANGED <<anonVars, saveVars>>

\* CPGGAN.train lines 60-122 (validate=True): the first batch of the validation
\* loader, up to the break after the generator ran
ValidateBatch ==
    /\ tpc = "val_loop"
    /\ batches_left > 0
    /\ \E f \in 1..FeatureSamples :
          batch' = RunBatch(TRUE, LoadedFeatures(f, batch_size),
                            Noise(1, batch_size))
    /\ val_inputs' = val_inputs \cup {[size |-> batch_size, vec |-> batch'.input_vec]}
    /\ D' = RunUpdates(TRUE).D
    /\ G' = RunUpdates(TRUE).G
    /\ batches_left' = 0
    /\ tpc' = "val_done"
    /\ UNCHANGED <<trainerVars, setupVars, scheduleVars, images_faded_in, train_mode,
                   validate, iterations, faded_at_call, callVars>>
    /\ UNCHANGED <<anonVars, saveVars>>

\* CPGGAN.train lines 183-187 (validate=True) and Trainer.train lines 42-43
ValidateEnd ==
    /\ tpc = "val_done"
    /\ train_mode' = SetTrainMode(TRUE)
    /\ D' = ModuleTrain(D, SetTrainMode(TRUE))
    /\ G' = ModuleTrain(G, SetTrainMode(TRUE))
    /\ NextEpoch
    /\ UNCHANGED <<config, setupVars, scheduleVars, images_faded_in, validate,
                   batches_left, iterations, faded_at_call, batch, val_inputs,
                   callVars>>
    /\ UNCHANGED <<anonVars, saveVars>>

\* Trainer.train line 25: range(max_epochs) is exhausted
Finish ==
    /\ tpc = "epoch"
    /\ current_epoch >= config.max_epochs
    /\ tpc' = "done"
    /\ UNCHANGED <<trainerVars, setupVars, scheduleVars, images_faded_in, train_mode,
                   validate, batches_left, iterations, faded_at_call, batch,
                   val_inputs, moduleVars, callVars>>
    /\ UNCHANGED <<anonVars, saveVars>>

Next ==
    \/ EpochStart
    \/ TrainBatch
    \/ TrainEnd
    \/ ValidateBatch
    \/ ValidateEnd
    \/ Finish

Spec == Init /\ [][Next]_vars

\* ====================================================== inference programs
\* --------------------------------------------------------- CPGGAN.anonymize
\* lines 196-213: the feature vector of an extracted face and its landmarks
Feature(face) == Tensor(<<"feature", face>>, 1)

\* line 216: the noise part of the input vector
AnonymizeNoise(fresh) == fresh

\* a level_out that is tested for truth, not for None
AnonymizeLevel_Falsy(level_out, target_resolution) ==
    IF level_out = None \/ level_out = Some(0)
    THEN Log2(target_resolution) - 1
    ELSE level_out.value

\* lines 220-224: the output level
AnonymizeLevel(level_out, target_resolution) ==
    IF level_out = None THEN Log2(target_resolution) - 1 ELSE level_out.value

\* CPGGAN.anonymize(extracted_face, extracted_information, level_out)
Anonymize ==
    \E face \in 1..MaxFaces, level_out \in {None} \cup {Some(n) : n \in 0..MaxLevelOut},
       z \in 1..NoiseSamples :
        /\ anon_last' =
              [face |-> face,
               level_out |-> level_out,
               level |-> AnonymizeLevel(level_out, params.target_resolution),
               input_vec |-> Cat(AnonymizeNoise(Noise(z, 1)), Feature(face))]
        /\ anon_prev' =
              IF anon_last = None THEN None
              ELSE [face |-> anon_last.face, input_vec |-> anon_last.input_vec]
        /\ UNCHANGED <<trainVars, anonymization_noise, apc, image, extracted_face,
                       latent_information, face_out, constructed_image, calls,
                       returned, saveVars>>

\* ------------------------------------------------------ Anonymizer.__call__
\* DeepFakeOriginal.img_size
ModelImgSize == 128

\* an image and the width of the face in it (0: there is none)
Images == [id : 1..MaxImages, face : {64 * k : k \in 0..MaxFaceSize}]

\* self.extractor(image): the face of the image, or None
Extract(img) ==
    IF img.face = 0 THEN None ELSE [of |-> img.id, size |-> img.face]

\* a check that lets every image through
FaceFound_Always(face) == TRUE

\* line 35: extracted_face is not None
FaceFound(face) == face # None

\* lines 32-35: the call begins and the extractor runs
CallExtract ==
    /\ apc = "idle"
    /\ \E img \in Images :
          /\ image' = img
          /\ extracted_face' = Extract(img)
          /\ apc' = IF FaceFound(Extract(img)) THEN "bridge" ELSE "return"
    /\ constructed_image' = None
    /\ latent_information' = None
    /\ face_out' = None
    /\ returned' = None
    /\ calls' = <<"extract">>
    /\ UNCHANGED <<trainVars, anonymization_noise, anon_last, anon_prev, saveVars>>

\* line 36 and DeepFakeOriginal.img2latent_bridge
Bridge ==
    /\ apc = "bridge"
    /\ latent_information' =
          IF extracted_face = None THEN [error |-> "AttributeError"]
          ELSE [of |-> extracted_face.of, size |-> ModelImgSize]
    /\ calls' = Append(calls, "img2latent_bridge")
    /\ apc' = IF extracted_face = None THEN "raised" ELSE "anonymize"
    /\ UNCHANGED <<trainVars, anonymization_noise, anon_last, anon_prev, image,
                   extracted_face, face_out, constructed_image, returned, saveVars>>

\* lines 38-40 and DeepFakeOriginal.anonymize
ModelAnonymize ==
    /\ apc = "anonymize"
    /\ face_out' = [generated_from |-> latent_information.of,
                    size |-> latent_information.size]
    /\ calls' = Append(calls, "anonymize")
    /\ apc' = "resize"
    /\ UNCHANGED <<trainVars, anonymization_noise, anon_last, anon_prev, image,
                   extracted_face, latent_information, constructed_image, returned,
                   saveVars>>

\* line 42: scale to the size of the extracted face
Resize ==
    /\ apc = "resize"
    /\ face_out' = [face_out EXCEPT !.size = extracted_face.size]
    /\ calls' = Append(calls, "resize")
    /\ apc' = "reconstruct"
    /\ UNCHANGED <<trainVars, anonymization_noise, anon_last, anon_prev, image,
                   extracted_face, latent_information, constructed_image, returned,
                   saveVars>>

\* line 45: self.reconstructor(face_out, extracted_information)
Reconstruct ==
    /\ apc = "reconstruct"
    /\ constructed_image' = [scene |-> image.id, face |-> face_out]
    /\ calls' = Append(calls, "reconstruct")
    /\ apc' = "return"
    /\ UNCHANGED <<trainVars, anonymization_noise, anon_last, anon_prev, image,
                   extracted_face, latent_information, face_out, returned, saveVars>>

\* line 47: return constructed_image
Return ==
    /\ apc = "return"
    /\ returned' = [image |-> image, value |-> constructed_image, calls |-> calls]
    /\ apc' = "idle"
    /\ UNCHANGED <<trainVars, anonymization_noise, anon_last, anon_prev, image,
                   extracted_face, latent_information, face_out, constructed_image,
                   calls, saveVars>>

\* the target resolutions a CPGGAN is constructed with for inference
AnonParams ==
    {[ShippedParams EXCEPT !.target_resolution = t] : t \in {4, 8, 16, 128}}

\* a CPGGAN constructed for inference, and an Anonymizer around a model
InitAnon ==
    /\ params \in AnonParams
    /\ \E z \in 1..NoiseSamples : anonymization_noise = Noise(z, 1)
    /\ TrainIdle
    /\ AnonIdle
    /\ SaveIdle

NextAnon ==
    \/ Anonymize
    \/ CallExtract
    \/ Bridge
    \/ ModelAnonymize
    \/ Resize
    \/ Reconstruct
    \/ Return

SpecAnon == InitAnon /\ [][NextAnon]_vars

\* ------------------------------- CombinedModel.save_model / load_model
\* DeepFakeOriginal.get_model_names
get_model_names == <<"encoder", "decoder1", "decoder2">>

\* DeepFakeOriginal.get_models (each model named by its attribute)
get_models == <<"encoder", "decoder1", "decoder2">>

\* zip(a, b)
Zip(a, b) == [i \in 1..Min(Len(a), Len(b)) |-> <<a[i], b[i]>>]

\* the folders save_model and load_model are called with
Folders == {<<"a">>, <<"a", "model">>}

\* name + '.model'
ModelFileName(name) == <<name, ".model">>

\* a save that writes into the folder it is given
SaveFolder_Flat(path) == path

\* save_model lines 107-109: path / 'model'
SaveFolder(path) == Append(path, "model")

\* load_model line 119: Path(path)
LoadFolder(path) == path

\* CustomModule.save: torch.save(self.state_dict(), path)
StateDict(model) == [model |-> model, version |-> weights[model]]

\* save_model lines 110-111: the file written for each name
Written(path) ==
    LET pairs == Zip(get_model_names, get_models)
    IN  [i \in 1..Len(pairs) |->
            [name |-> pairs[i][1],
             file |-> Append(SaveFolder(path), ModelFileName(pairs[i][1])),
             content |-> StateDict(pairs[i][2])]]

\* load_model lines 120-121: the file read for each name
Read(path) ==
    LET pairs == Zip(get_model_names, get_models)
    IN  [i \in 1..Len(pairs) |->
            LET file == Append(LoadFolder(path), ModelFileName(pairs[i][1]))
            IN  [name |-> pairs[i][1],
                 model |-> pairs[i][2],
                 file |-> file,
                 content |-> IF \E e \in files : e.file = file
                             THEN (CHOOSE e \in files : e.file = file).content
                             ELSE None]]

\* the entries of a sequence, as a set
Range(seq) == {seq[i] : i \in 1..Len(seq)}

\* the file system after the files ws are written: one entry per file
RECURSIVE PutAll(_, _)
PutAll(fs, ws) ==
    IF ws = {} THEN fs
    ELSE LET w == CHOOSE x \in ws : TRUE
         IN  PutAll((fs \ {e \in fs : e.file = w.file})
                        \cup {[file |-> w.file, content |-> w.content]},
                    ws \ {w})

\* CombinedModel.save_model(path)
SaveModel ==
    \E path \in Folders :
        /\ files' = PutAll(files, Range(Written(path)))
        /\ last_save' = [path |-> path, written |-> Written(path)]
        /\ UNCHANGED <<trainVars, anonVars, weights, last_load>>

\* the first index whose file is missing, or 0
FirstMissing(read) ==
    IF \E i \in 1..Len(read) : read[i].content = None
    THEN CHOOSE i \in 1..Len(read) :
            /\ read[i].content = None
            /\ \A j \in 1..(i - 1) : read[j].content # None
    ELSE 0

\* CombinedModel.load_model(path): the models are loaded in order, up to the
\* first file that does not exist (torch.load raises FileNotFoundError)
LoadModel ==
    \E path \in Folders :
        LET read == Read(path)
            stop == FirstMissing(read)
            done == IF stop = 0 THEN Len(read) ELSE stop - 1
        IN  /\ weights' =
                  [m \in DOMAIN weights |->
                      IF \E i \in 1..done : read[i].model = m
                      THEN (CHOOSE r \in {read[i] : i \in 1..done} :
                                r.model = m).content.version
                      ELSE weights[m]]
            /\ last_load' =
                  [path |-> path,
                   before |-> weights,
                   read |-> read,
                   raised |-> stop # 0,
                   save |-> last_save]
            /\ UNCHANGED <<trainVars, anonVars, files, last_save>>

\* an optimizer step changes the parameters of the models
OptimizerStep ==
    /\ \A m \in DOMAIN weights : weights[m] < MaxVersion
    /\ weights' = [m \in DOMAIN weights |-> weights[m] + 1]
    /\ UNCHANGED <<trainVars, anonVars, files, last_save, last_load>>

InitSave ==
    /\ params = ShippedParams
    /\ anonymization_noise = Noise(1, 1)
    /\ TrainIdle
    /\ AnonIdle
    /\ SaveIdle

NextSave ==
    \/ SaveModel
    \/ LoadModel
    \/ OptimizerStep

SpecSave == InitSave /\ [][NextSave]_vars

\* =============================================================== claims
\* a batch has been processed
Processed == batch.n > 0

\* C1: every batch processed in a stabilization phase runs the generator and
\* the discriminator at cur_level = resolution_level with fade_in_factor = 0;
\* every batch processed in a fade-in phase runs them at cur_level =
\* resolution_level - 1 + images_faded_in / images_per_fading_phase, with 1e-10
\* in place of a quotient of 0; both networks get the same cur_level.
C1_CurLevelOfBatch ==
    Processed =>
        /\ batch.d_levels = batch.g_levels
        /\ Cardinality(batch.g_levels) = 1
        /\ \A l \in batch.d_levels \cup batch.g_levels :
              IF batch.stab
              THEN /\ l.whole = batch.level /\ l.num = 0 /\ ~l.eps
                   /\ batch.fade_in_factor.num = 0
              ELSE /\ l.whole = batch.level - 1
                   /\ l.num * batch.per_phase = batch.faded * l.den
                   /\ l.den > 0
                   /\ l.eps <=> (batch.faded = 0)
                   /\ batch.fade_in_factor.num * batch.per_phase
                          = batch.faded * batch.fade_in_factor.den

\* a validation batch in a fade-in phase with images already faded in
C1_Witness ==
    /\ Processed /\ ~batch.stab /\ batch.validate
    /\ batch.faded > 0 /\ batch.level = 3

C3_Counting ==
    /\ (tpc = "train_loop" /\ iterations' = iterations + 1) =>
          images_faded_in' =
              images_faded_in + (IF stabilization_phase THEN 0 ELSE batch_size)
    /\ (tpc \in {"val_loop", "val_done"} \/ tpc' = "val_loop") =>
          images_faded_in' = images_faded_in

RECURSIVE StabEpochs(_, _)
StabEpochs(level, epochs_stab) ==
    IF level < 1 THEN 0 ELSE epochs_stab + StabEpochs(level - 1, epochs_stab)

RECURSIVE FadeEpochs(_, _)
FadeEpochs(level, epochs_fade) ==
    IF level < 2 THEN 0 ELSE epochs_fade + FadeEpochs(level - 1, epochs_fade)

\* C5: the PGGAN epoch budget is one stabilization phase per level
\* 1..max_level with max_level = log2(target_resolution) - 1, one more at the
\* end, and one fade-in phase per level but the first; 48 epochs for the
\* shipped target_resolution 128 with epochs_stab = epochs_fade = 4.
C5_EpochBudget ==
    config.name = "PGGAN_CONFIG" =>
        LET max_level == Log2(params.target_resolution) - 1
        IN  /\ config.max_epochs =
                  StabEpochs(max_level, params.epochs_stab) + params.epochs_stab
                      + FadeEpochs(max_level, params.epochs_fade)
            /\ params = ShippedParams => config.max_epochs = 48

\* the shipped configuration has run its 48 epochs
C5_Witness ==
    /\ config.name = "PGGAN_CONFIG" /\ params = ShippedParams
    /\ tpc = "done" /\ current_epoch = 48

\* C6: every validation pass feeds the generator the static noise and the
\* static landmark and low-resolution samples of the construction, so two
\* validation passes at the same batch_size give it the same input vector.
C6_StaticValidationInput ==
    /\ \A x \in val_inputs, y \in val_inputs : x.size = y.size => x.vec = y.vec
    /\ \A x \in val_inputs :
          x.vec = <<Slice(static_noise, x.size),
                    <<Slice(static_landmarks, x.size), Slice(static_lowres, x.size)>>>>

\* validation passes at two batch sizes, the last one after several epochs
C6_Witness ==
    /\ tpc = "val_done" /\ current_epoch >= 20
    /\ Cardinality(val_inputs) = 2

\* validate_index after the update of epoch e, by the rule of the claim
RECURSIVE C10_Index(_, _)
C10_Index(cfg, e) ==
    LET before == IF e = 0 THEN 0 ELSE C10_Index(cfg, e - 1)
    IN  IF e >= Idx(cfg.validation_periods, before + 1) THEN before + 1 ELSE before

\* whether epoch e validates, by the rule of the claim
C10_Rule(cfg, e) ==
    e % Idx(cfg.validation_frequencies, C10_Index(cfg, e)) = 0

\* whether epoch e validates under the default Config, as the claim spells out
C10_Default(e) ==
    IF e < 10 THEN e % 2 = 0 ELSE IF e < 20 THEN e % 5 = 0 ELSE e % 20 = 0

\* the passes of an epoch that validated, or did not
C10_Passes(validated) ==
    IF validated THEN <<"train", "validate">> ELSE <<"train">>

\* C10: Trainer.train runs epochs 0..max_epochs-1 in order, each with one
\* training pass first and a validation pass after it iff current_epoch %
\* validation_frequencies[validate_index] = 0, validate_index advanced first
\* when current_epoch >= validation_periods[validate_index + 1]; the default
\* Config validates every 2nd epoch of 0..9, every 5th of 10..19 and every
\* 20th from 20 on.
C10_EpochPasses ==
    /\ current_epoch \in 0..config.max_epochs
    /\ last_epoch.epoch = current_epoch - 1
    /\ tpc = "done" => current_epoch = config.max_epochs
    /\ tpc = "epoch" =>
          /\ passes = <<>>
          /\ current_epoch > 0 =>
                /\ last_epoch.passes =
                      C10_Passes(C10_Rule(config, last_epoch.epoch))
                /\ config.name = "Config" =>
                      last_epoch.passes = C10_Passes(C10_Default(last_epoch.epoch))
    /\ tpc = "train_loop" => passes = <<"train">> /\ ~validate
    /\ tpc \in {"val_loop", "val_done"} =>
          /\ passes = <<"train", "validate">> /\ validate
          /\ C10_Rule(config, current_epoch)
          /\ config.name = "Config" => C10_Default(current_epoch)

\* the default Config has finished epoch 16 without a validation pass, and
\* validated epoch 15 before
C10_Witness ==
    /\ config.name = "Config" /\ tpc = "epoch" /\ current_epoch = 17
    /\ last_epoch = [epoch |-> 16, passes |-> <<"train">>]
    /\ config.validate_index = 1
    /\ val_inputs # {}

\* the collaborators of a call that found a face, in order
C4_Order == <<"extract", "img2latent_bridge", "anonymize", "resize", "reconstruct">>

\* C4: Anonymizer.__call__ returns the reconstructor's output iff the
\* extractor found a face; then the steps run in the order extract,
\* img2latent_bridge, model.anonymize, resize to the size of the extracted
\* face, reconstruct; without a face it returns None and neither the model
\* nor the reconstructor is invoked.
C4_AnonymizerCall ==
    /\ Len(calls) <= Len(C4_Order)
    /\ calls = SubSeq(C4_Order, 1, Len(calls))
    /\ (image # None /\ image.face = 0) => Len(calls) <= 1
    /\ returned # None =>
          /\ returned.value # None <=> returned.image.face # 0
          /\ returned.image.face # 0 =>
                /\ returned.calls = C4_Order
                /\ returned.value =
                      [scene |-> returned.image.id,
                       face |-> [generated_from |-> returned.image.id,
                                 size |-> returned.image.face]]
          /\ returned.image.face = 0 =>
                /\ returned.value = None
                /\ returned.calls = <<"extract">>

\* a call returned the reconstruction of a face that had to be scaled
C4_Witness ==
    /\ returned # None
    /\ returned.value # None
    /\ returned.image.face # ModelImgSize

\* C7: the noise part of the generator input of anonymize is the
\* anonymization_noise of the construction, so two calls on the same
\* extracted face and landmarks give the generator the same input vector.
C7_StaticAnonymizationNoise ==
    /\ anon_last # None => anon_last.input_vec[1] = anonymization_noise
    /\ (anon_last # None /\ anon_prev # None /\ anon_prev.face = anon_last.face) =>
          anon_prev.input_vec = anon_last.input_vec

\* the last key of batch_size_schedule
C8_LastKey ==
    CHOOSE k \in DOMAIN batch_size_schedule :
        \A j \in DOMAIN batch_size_schedule : j <= k

\* C8: with level_out None anonymize runs the generator at level
\* log2(target_resolution) - 1, which for the shipped target_resolution is
\* PGGAN_CONFIG.max_level and the last key of batch_size_schedule; a given
\* level_out, 0 included, is used unchanged.
C8_AnonymizeLevel ==
    anon_last # None =>
        /\ anon_last.level_out = None =>
              /\ 2 ^ (anon_last.level + 1) = params.target_resolution
              /\ params.target_resolution = ShippedParams.target_resolution =>
                    /\ anon_last.level = MaxLevel(ShippedParams.target_resolution)
                    /\ anon_last.level = C8_LastKey
        /\ anon_last.level_out # None => anon_last.level = anon_last.level_out.value

\* a call without level_out on the shipped target resolution, after a call on
\* the same face
C8_Witness ==
    /\ anon_last # None /\ anon_prev # None
    /\ anon_last.level_out = None
    /\ anon_last.level = 6
    /\ params = ShippedParams

\* what a load after a save read: for every name the file written for the
\* model paired with that name, with the content written
C9_ReadsWhatWasWritten ==
    /\ ~last_load.raised
    /\ Len(last_load.read) = Len(get_model_names)
    /\ \A i \in 1..Len(last_load.read) :
          /\ last_load.read[i].name = get_model_names[i]
          /\ last_load.read[i].file[Len(last_load.read[i].file)]
                = <<get_model_names[i], ".model">>
          /\ \E w \in Range(last_load.save.written) :
                /\ w.name = last_load.read[i].name
                /\ w.file = last_load.read[i].file
                /\ w.content = last_load.read[i].content
                /\ w.content.model = last_load.read[i].model

\* C9 (amended): after save_model(p), load_model(p / 'model') reads, for every
\* name of get_model_names, the file '<name>.model' that save_model wrote for
\* the model paired with that name.
C9_RoundTripModelFolder ==
    (/\ last_load # None
     /\ last_load.save # None
     /\ last_load.path = Append(last_load.save.path, "model")) =>
        C9_ReadsWhatWasWritten

\* C9 (as claimed): after save_model(p), load_model(p) reads them.
C9_RoundTripSamePath ==
    (/\ last_load # None
     /\ last_load.save # None
     /\ last_load.path = last_load.save.path) =>
        C9_ReadsWhatWasWritten

\* parameters saved after an optimizer step were loaded from the model folder
\* of the save, after another step had changed them
C9_Witness ==
    /\ last_load # None
    /\ last_load.save # None
    /\ last_load.path = Append(last_load.save.path, "model")
    /\ ~last_load.raised
    /\ \A m \in DOMAIN weights : last_load.before[m] = 2 /\ weights[m] = 1

\* validate_index is a valid index of both lists of the configuration
C11_InBounds ==
    /\ InRange(config.validation_frequencies, config.validate_index)
    /\ InRange(config.validation_periods, config.validate_index + 1)

\* validate_index moves up by one at most, only where a training pass returns,
\* and a training pass is entered once per epoch
C11_Step ==
    /\ config'.validate_index \in
          {config.validate_index, config.validate_index + 1}
    /\ config'.validate_index # config.validate_index =>
          tpc = "train_loop" /\ tpc' # "train_loop"
    /\ (tpc' = "train_loop" /\ tpc # "train_loop") => tpc = "epoch"
    /\ (tpc' = "epoch" /\ tpc # "epoch") => current_epoch' = current_epoch + 1

\* C11: during Trainer.train validate_index never decreases, grows by at most
\* one per epoch and stays a valid index of validation_frequencies, with
\* validate_index + 1 a valid index of validation_periods, in every epoch
\* below max_epochs, for Config, GAN_CONFIG and PGGAN_CONFIG / CPGGAN_CONFIG.
C11_ValidateIndexValid ==
    /\ [](tpc # "IndexError" /\ C11_InBounds)
    /\ [][C11_Step]_vars

\* GAN_CONFIG, which inherits validation_periods, has run all its epochs and
\* ended in the last validation period
C11_Witness ==
    /\ config.name = "GAN_CONFIG" /\ tpc = "done"
    /\ current_epoch = config.max_epochs
    /\ config.validate_index = 2

\* the modes a pass runs with: every model and the gradient computation
C12_Modes(mode) == [D |-> mode, G |-> mode, grad_enabled |-> mode]

\* C12: every training pass starts with set_train_mode(True) in effect (all
\* models in training mode, gradients enabled), every validation pass runs
\* with set_train_mode(False) in effect (all models in evaluation mode,
\* gradients disabled), and the mode set by the Trainer is True again at the
\* end of every epoch, whether or not the epoch validated.
C12_TrainModeProtocol ==
    /\ (tpc = "train_loop" /\ iterations = 0) =>
          train_mode /\ D.training /\ G.training
    /\ (tpc = "train_loop" /\ iterations = 1) =>
          batch.started = C12_Modes(TRUE)
    /\ tpc \in {"val_loop", "val_done"} =>
          ~train_mode /\ ~D.training /\ ~G.training
    /\ tpc = "val_done" =>
          batch.validate /\ batch.started = C12_Modes(FALSE)
    /\ (tpc \in {"epoch", "done"} /\ current_epoch > 0) =>
          train_mode /\ G.training

\* an epoch that did not validate has ended after one that did: the mode set
\* by the Trainer is True, the discriminator is as the last batch left it
C12_Witness ==
    /\ tpc = "epoch" /\ current_epoch = 2 /\ config.name = "Config"
    /\ last_epoch.passes = <<"train">>
    /\ val_inputs # {}
    /\ train_mode /\ G.training /\ ~D.training

\* C13: CPGGAN.train with validate=False calls schedule_resolution exactly
\* once, before the first batch, and iterates a training loader fetched after
\* that call, not the one the Trainer passed; with validate=True it never
\* calls schedule_resolution and iterates the loader it was given.
C13_ScheduleOncePerTrainingCall ==
    /\ tpc \in {"epoch", "done"} => schedule_calls = current_epoch
    /\ tpc \in {"train_loop", "val_loop", "val_done"} =>
          schedule_calls = current_epoch + 1
    /\ tpc = "train_loop" =>
          /\ train_data_loader =
                Loader("train", "CPGGAN.train", current_epoch + 1)
          /\ iterations > 0 =>
                /\ ~batch.validate
                /\ batch.schedule_calls = current_epoch + 1
                /\ batch.loader = train_data_loader
    /\ tpc \in {"val_loop", "val_done"} =>
          train_data_loader =
             Loader("validation", "Trainer.train", current_epoch + 1)
    /\ tpc = "val_done" =>
          /\ batch.validate
          /\ batch.schedule_calls = current_epoch + 1
          /\ batch.loader = train_data_loader

\* the validation pass of a later epoch has run its batch on the loader of
\* the Trainer, after a training pass on a loader fetched by CPGGAN.train
C13_Witness ==
    /\ tpc = "val_done" /\ current_epoch = 4
    /\ schedule_calls = 5
    /\ batch.loader.fetched_by = "Trainer.train"
    /\ batch.loader.kind = "validation"

\* the operations of the claim: zeroing, back-propagation, optimizer steps
C14_UpdateOps ==
    {"D_optimizer.zero_grad", "D_real.backward", "D_fake.backward",
     "gp.backward", "D_optimizer.step", "G_optimizer.zero_grad",
     "G_loss.backward", "G_optimizer.step"}

C14_IsUpdateOp(entry) == entry.op \in C14_UpdateOps

\* the order of the claim
C14_Order ==
    <<"D_optimizer.zero_grad", "D_real.backward", "D_fake.backward",
      "gp.backward", "D_optimizer.step", "G_optimizer.zero_grad",
      "G_loss.backward", "G_optimizer.step">>

\* the position of an operation in a log
C14_Pos(log, op) == CHOOSE i \in 1..Len(log) : log[i].op = op

\* C14: in every training batch the discriminator is updated before the
\* generator, each exactly once: D gradients are zeroed, the real-image loss,
\* the fake-image loss and the gradient penalty are back-propagated and
\* D_optimizer steps on exactly these; only then G gradients are zeroed, the
\* generator loss is back-propagated and G_optimizer steps on exactly it.  D
\* is in training mode during its own update and in evaluation mode during
\* the update of the generator.
C14_UpdateOrder ==
    (batch.n > 0 /\ ~batch.validate) =>
       LET log == batch.log
           updates == SelectSeq(log, C14_IsUpdateOp)
           d_step == C14_Pos(log, "D_optimizer.step")
           g_step == C14_Pos(log, "G_optimizer.step")
       IN  /\ [i \in 1..Len(updates) |-> updates[i].op] = C14_Order
           /\ log[d_step].applied =
                 [l \in Losses |-> IF l = "generator" THEN 0 ELSE 1]
           /\ log[g_step].applied =
                 [l \in Losses |-> IF l = "generator" THEN 1 ELSE 0]
           /\ \A i \in C14_Pos(log, "D_optimizer.zero_grad")..d_step :
                 log[i].D_training
           /\ \A i \in C14_Pos(log, "G_optimizer.zero_grad")..g_step :
                 ~log[i].D_training

\* the second batch of a training pass in a later epoch: the gradients the
\* generator update left in the discriminator were zeroed before its update
C14_Witness ==
    /\ tpc = "train_loop" /\ current_epoch >= 1
    /\ batch.n = 2 /\ ~batch.validate
    /\ ~batch.started.D /\ batch.started.G
    /\ D.grad["generator"] = 1

====
